---- MODULE Spec2Model ----
(***************************************************************************)
(* Model of the voting backend of src/main.py over the store declared in   *)
(* src/models.py.  The store is five tables (elections, polls, candidates, *)
(* voters, votes); every table maps the ids of its rows to the row.  The   *)
(* handlers of main.py are the actions.  Free-text payload columns (title, *)
(* description, name, created_at) decide none of the properties stated     *)
(* here and are left out of the rows; candidate names can always be chosen *)
(* distinct, so the (poll, name) index never rejects a write that the      *)
(* model allows.                                                           *)
(***************************************************************************)
EXTENDS Integers, FiniteSets, Sequences, TLC

\* Bounds of the model: the largest row id of each table, the last instant
\* of the clock.
MaxElectionId == 1
MaxPollId == 2
MaxCandidateId == 2
MaxVoterId == 1
MaxVoteId == 2
MaxTime == 2
\* The largest number of votes of the poll whose tally is computed.
MaxTallyVotes == 32
\* The number of distinct email addresses, the largest value given to
\* max_votes_per_voter, the number of voters of a seeded register.
MaxEmail == 3
MaxVotesPerVoter == 2
MaxRegistered == 3

VARIABLES elections, polls, candidates, voters, votes, clock, req, resp

vars == <<elections, polls, candidates, voters, votes, clock, req, resp>>

store == <<elections, polls, candidates, voters, votes>>

Times == 0..MaxTime

----------------------------------------------------------------------------
\* Store primitives (peewee over SQLite, models.py).

Max(S) == CHOOSE x \in S : \A y \in S : y <= x

\* INTEGER PRIMARY KEY without AUTOINCREMENT: a new row gets max(id) + 1.
NextId(rows) == IF DOMAIN rows = {} THEN 1 ELSE Max(DOMAIN rows) + 1

Restrict(rows, S) == [i \in S |-> rows[i]]

Insert(rows, row) == rows @@ (NextId(rows) :> row)

\* ON DELETE CASCADE of Poll.election, Candidate.poll, Vote.poll,
\* Vote.candidate and Vote.voter.
PollsOf(ps, es) == {p \in DOMAIN ps : ps[p].election \in es}

CandidatesOf(cs, ps) == {c \in DOMAIN cs : cs[c].poll \in ps}

VotesOf(vs, ps, cs, vt) ==
    {i \in DOMAIN vs : vs[i].poll \in ps /\ vs[i].candidate \in cs /\ vs[i].voter \in vt}

\* The rows left after the rows outside keepE / keepP / keepC / keepV are
\* deleted and the deletion has cascaded.
Cascade(keepE, keepP, keepC, keepV) ==
    LET es == DOMAIN elections \cap keepE
        ps == PollsOf(polls, es) \cap keepP
        cs == CandidatesOf(candidates, ps) \cap keepC
        vt == DOMAIN voters \cap keepV
    IN  /\ elections' = Restrict(elections, es)
        /\ polls' = Restrict(polls, ps)
        /\ candidates' = Restrict(candidates, cs)
        /\ voters' = Restrict(voters, vt)
        /\ votes' = Restrict(votes, VotesOf(votes, ps, cs, vt))

AllE == 1..MaxElectionId
AllP == 1..MaxPollId
AllC == 1..MaxCandidateId
AllV == 1..MaxVoterId

Emails == 1..MaxEmail

\* The response of a handler other than create_vote.
Response(op, result) == [op |-> op, result |-> result]

\* resp holds the response that the last step returned (NoResponse when
\* the step served no request).  Runs that follow one request statement by
\* statement do not record the responses of the requests served around it:
\* there resp stays Unrecorded.
Unrecorded == [op |-> "unrecorded"]

NoResponse == [op |-> "none"]

Log(r) == IF resp = Unrecorded THEN resp ELSE r

Respond(op, result) == resp' = Log(Response(op, result))

----------------------------------------------------------------------------
\* CRUD handlers.  Each is one or two statements in autocommit mode; the
\* existence check and the write that follows it are modelled as one step
\* (a row deleted in between makes the UPDATE touch no row or fail its
\* foreign key, which leaves the store as if the handler had been refused).

\* The dates compared with > : equal dates are let through.
BadDates_EqualAllowed(s, e) == s > e

\* election.start_date >= election.end_date
BadDates(s, e) == s >= e

create_election(s, e, active) ==
    /\ IF BadDates(s, e)
       THEN /\ Respond("create_election", "BadDates")
            /\ UNCHANGED elections
       ELSE /\ NextId(elections) <= MaxElectionId
            /\ elections' = Insert(elections, [start_date |-> s, end_date |-> e,
                                               is_active |-> active])
            /\ Respond("create_election", "ok")
    /\ UNCHANGED <<polls, candidates, voters, votes, clock, req>>

update_election(id, s, e, active) ==
    /\ IF id \notin DOMAIN elections
       THEN /\ Respond("update_election", "NotFoundElection")
            /\ UNCHANGED elections
       ELSE IF BadDates(s, e)
       THEN /\ Respond("update_election", "BadDates")
            /\ UNCHANGED elections
       ELSE /\ elections' = [elections EXCEPT ![id] = [start_date |-> s, end_date |-> e,
                                                      is_active |-> active]]
            /\ Respond("update_election", "ok")
    /\ UNCHANGED <<polls, candidates, voters, votes, clock, req>>

delete_election(id) ==
    /\ IF id \notin DOMAIN elections
       THEN /\ Respond("delete_election", "NotFoundElection")
            /\ UNCHANGED store
       ELSE /\ Cascade(AllE \ {id}, AllP, AllC, AllV)
            /\ Respond("delete_election", "ok")
    /\ UNCHANGED <<clock, req>>

create_poll(e, active, max_votes) ==
    /\ IF e \notin DOMAIN elections
       THEN /\ Respond("create_poll", "NotFoundElection")
            /\ UNCHANGED polls
       ELSE /\ NextId(polls) <= MaxPollId
            /\ polls' = Insert(polls, [election |-> e, is_active |-> active,
                                       max_votes_per_voter |-> max_votes])
            /\ Respond("create_poll", "ok")
    /\ UNCHANGED <<elections, candidates, voters, votes, clock, req>>

update_poll(id, e, active, max_votes) ==
    /\ IF id \notin DOMAIN polls
       THEN /\ Respond("update_poll", "NotFoundPoll")
            /\ UNCHANGED polls
       ELSE IF e \notin DOMAIN elections
       THEN /\ Respond("update_poll", "NotFoundElection")
            /\ UNCHANGED polls
       ELSE /\ polls' = [polls EXCEPT ![id] = [election |-> e, is_active |-> active,
                                              max_votes_per_voter |-> max_votes]]
            /\ Respond("update_poll", "ok")
    /\ UNCHANGED <<elections, candidates, voters, votes, clock, req>>

delete_poll(id) ==
    /\ IF id \notin DOMAIN polls
       THEN /\ Respond("delete_poll", "NotFoundPoll")
            /\ UNCHANGED store
       ELSE /\ Cascade(AllE, AllP \ {id}, AllC, AllV)
            /\ Respond("delete_poll", "ok")
    /\ UNCHANGED <<clock, req>>

create_candidate(p) ==
    /\ IF p \notin DOMAIN polls
       THEN /\ Respond("create_candidate", "NotFoundPoll")
            /\ UNCHANGED candidates
       ELSE /\ NextId(candidates) <= MaxCandidateId
            /\ candidates' = Insert(candidates, [poll |-> p])
            /\ Respond("create_candidate", "ok")
    /\ UNCHANGED <<elections, polls, voters, votes, clock, req>>

\* The votes of the candidate moved to the new poll with it.
update_candidate_MovesVotes(id, p) ==
    /\ IF id \notin DOMAIN candidates
       THEN /\ Respond("update_candidate", "NotFoundCandidate")
            /\ UNCHANGED <<candidates, votes>>
       ELSE IF p \notin DOMAIN polls
       THEN /\ Respond("update_candidate", "NotFoundPoll")
            /\ UNCHANGED <<candidates, votes>>
       ELSE /\ candidates' = [candidates EXCEPT ![id] = [poll |-> p]]
            /\ votes' = [i \in DOMAIN votes |->
                            IF votes[i].candidate = id
                            THEN [votes[i] EXCEPT !.poll = p] ELSE votes[i]]
            /\ Respond("update_candidate", "ok")
    /\ UNCHANGED <<elections, polls, voters, clock, req>>

update_candidate(id, p) ==
    /\ IF id \notin DOMAIN candidates
       THEN /\ Respond("update_candidate", "NotFoundCandidate")
            /\ UNCHANGED candidates
       ELSE IF p \notin DOMAIN polls
       THEN /\ Respond("update_candidate", "NotFoundPoll")
            /\ UNCHANGED candidates
       ELSE /\ candidates' = [candidates EXCEPT ![id] = [poll |-> p]]
            /\ Respond("update_candidate", "ok")
    /\ UNCHANGED <<elections, polls, voters, votes, clock, req>>

delete_candidate(id) ==
    /\ IF id \notin DOMAIN candidates
       THEN /\ Respond("delete_candidate", "NotFoundCandidate")
            /\ UNCHANGED store
       ELSE /\ Cascade(AllE, AllP, AllC \ {id}, AllV)
            /\ Respond("delete_candidate", "ok")
    /\ UNCHANGED <<clock, req>>

\* A voters table whose email column is not unique.
EmailTaken_NotUnique(vs, m, self) == FALSE

\* The unique index on Voter.email: another row than self holds m.
EmailTaken(vs, m, self) == \E i \in DOMAIN vs \ {self} : vs[i].email = m

\* The response of create_voter and update_voter, kept with the id (0 for
\* a creation) and the email of the request.
VoterResponse(op, id, m, result) ==
    resp' = Log([op |-> op, result |-> result, voter_id |-> id, email |-> m])

\* Voter.create raises IntegrityError on a taken email; the handler turns
\* every exception into an error response.
create_voter(m, verified) ==
    /\ IF EmailTaken(voters, m, 0)
       THEN /\ VoterResponse("create_voter", 0, m, "EmailTaken")
            /\ UNCHANGED voters
       ELSE /\ NextId(voters) <= MaxVoterId
            /\ voters' = Insert(voters, [email |-> m, is_verified |-> verified])
            /\ VoterResponse("create_voter", 0, m, "ok")
    /\ UNCHANGED <<elections, polls, candidates, votes, clock, req>>

update_voter(id, m, verified) ==
    /\ IF id \notin DOMAIN voters
       THEN /\ VoterResponse("update_voter", id, m, "NotFoundVoter")
            /\ UNCHANGED voters
       ELSE IF EmailTaken(voters, m, id)
       THEN /\ VoterResponse("update_voter", id, m, "EmailTaken")
            /\ UNCHANGED voters
       ELSE /\ voters' = [voters EXCEPT ![id] = [email |-> m, is_verified |-> verified]]
            /\ VoterResponse("update_voter", id, m, "ok")
    /\ UNCHANGED <<elections, polls, candidates, votes, clock, req>>

delete_voter(id) ==
    /\ IF id \notin DOMAIN voters
       THEN /\ Respond("delete_voter", "NotFoundVoter")
            /\ UNCHANGED store
       ELSE /\ Cascade(AllE, AllP, AllC, DOMAIN voters \ {id})
            /\ Respond("delete_voter", "ok")
    /\ UNCHANGED <<clock, req>>

\* datetime.now() advances.
Tick ==
    /\ clock < MaxTime
    /\ clock' = clock + 1
    /\ resp' = Log(NoResponse)
    /\ UNCHANGED <<store, req>>

----------------------------------------------------------------------------
\* create_vote (main.py 359-416).  A request is a record of the handler's
\* position (pc) and locals; Step runs the statement at pc.  Statements
\* that touch no shared state (the tests of poll.is_active and
\* voter.is_verified on rows already fetched, the reading of the clock
\* right after the election is fetched) are run with the query before them.
\* A fetched row that no later statement reads is dropped from the locals
\* (candidate after line 370, voter after line 392).  conn is the state of
\* the connection of the thread that serves the request (peewee keeps one
\* connection state per thread): DBContext opens it before the first
\* statement and closes it when the with block is left.

NoRow == [absent |-> TRUE]

\* DBContext.__enter__: database.connect(), then the body starts.
Begin(p, c, v) ==
    [pc |-> "get_poll", poll_id |-> p, candidate_id |-> c, voter_id |-> v,
     poll |-> NoRow, candidate |-> NoRow, voter |-> NoRow, conn |-> TRUE]

\* The connection closed only when the body returns normally.
Release_OnlyOnReturn(result) == result # "ok"

\* DBContext.__exit__, run on every exit of the with block: is the
\* connection still open afterwards?
Release(result) == FALSE

\* The handler has returned or raised: its locals are gone.
Finish(r, result) ==
    [pc |-> "done", poll_id |-> r.poll_id, candidate_id |-> r.candidate_id,
     voter_id |-> r.voter_id, result |-> result, conn |-> Release(result)]

\* The membership test left out.
NotBelongs_Unchecked(candidate, p) == FALSE

\* candidate.poll.id != poll.id
NotBelongs(candidate, p) == candidate.poll # p

\* The pre-check looking for a vote of the voter in any poll.
existing_vote_AnyPoll(vs, p, v) == \E i \in DOMAIN vs : vs[i].voter = v

\* Vote.select().where((Vote.poll == poll) & (Vote.voter == voter)).first()
existing_vote(vs, p, v) == \E i \in DOMAIN vs : vs[i].poll = p /\ vs[i].voter = v

\* A window that excludes its end.
OutsideWindow_EndExclusive(now, election) ==
    now < election.start_date \/ now >= election.end_date

\* now < election.start_date or now > election.end_date
OutsideWindow(now, election) == now < election.start_date \/ now > election.end_date

\* Foreign keys not enforced (PRAGMA foreign_keys off).
ForeignKeyViolation_NotEnforced(db, p, c, v) == FALSE

\* A votes table whose (poll, voter) index is not unique.
UniqueViolation_NotUnique(vs, p, v) == FALSE

\* The unique index (poll, voter) of the votes table.
UniqueViolation(vs, p, v) == \E i \in DOMAIN vs : vs[i].poll = p /\ vs[i].voter = v

\* The foreign keys of a Vote row (PRAGMA foreign_keys = 1).
ForeignKeyViolation(db, p, c, v) ==
    p \notin DOMAIN db.polls \/ c \notin DOMAIN db.candidates \/ v \notin DOMAIN db.voters

\* What create_vote does with the IntegrityError that Vote.create raises:
\* no except clause catches it, the request ends as a server error.
OnIntegrityError == "ServerError"

\* Vote.create(**vote.dict()); voted_at defaults to datetime.now() at the
\* insert.
VoteCreate(db, r, vs, now) ==
    IF ForeignKeyViolation(db, r.poll_id, r.candidate_id, r.voter_id)
       \/ UniqueViolation(vs, r.poll_id, r.voter_id)
    THEN [req |-> Finish(r, OnIntegrityError), votes |-> vs]
    ELSE [req |-> Finish(r, "ok"),
          votes |-> Insert(vs, [poll |-> r.poll_id, candidate |-> r.candidate_id,
                                voter |-> r.voter_id, voted_at |-> now])]

\* The test of poll.is_active left out.
CheckVoteAndFlags_NoActiveTest(r, vs) ==
    IF existing_vote(vs, r.poll_id, r.voter_id) THEN Finish(r, "Conflict")
    ELSE IF ~r.voter.is_verified THEN Finish(r, "VoterUnverified")
    ELSE [r EXCEPT !.pc = "window", !.voter = NoRow]

\* The pre-check looking only for a vote of the voter for the same
\* candidate.
CheckVoteAndFlags_SameCandidateOnly(r, vs) ==
    IF \E i \in DOMAIN vs : /\ vs[i].poll = r.poll_id /\ vs[i].voter = r.voter_id
                            /\ vs[i].candidate = r.candidate_id
    THEN Finish(r, "Conflict")
    ELSE IF ~r.poll.is_active THEN Finish(r, "PollInactive")
    ELSE IF ~r.voter.is_verified THEN Finish(r, "VoterUnverified")
    ELSE [r EXCEPT !.pc = "window", !.voter = NoRow]

\* The pre-check counting the votes of the voter in the poll against
\* poll.max_votes_per_voter.
CheckVoteAndFlags_CountsAgainstMax(r, vs) ==
    IF Cardinality({i \in DOMAIN vs : vs[i].poll = r.poll_id /\ vs[i].voter = r.voter_id})
          >= r.poll.max_votes_per_voter
    THEN Finish(r, "Conflict")
    ELSE IF ~r.poll.is_active THEN Finish(r, "PollInactive")
    ELSE IF ~r.voter.is_verified THEN Finish(r, "VoterUnverified")
    ELSE [r EXCEPT !.pc = "window", !.voter = NoRow]

\* The flags tested before the pre-check for an existing vote.
CheckVoteAndFlags_FlagsFirst(r, vs) ==
    IF ~r.poll.is_active THEN Finish(r, "PollInactive")
    ELSE IF ~r.voter.is_verified THEN Finish(r, "VoterUnverified")
    ELSE IF existing_vote(vs, r.poll_id, r.voter_id) THEN Finish(r, "Conflict")
    ELSE [r EXCEPT !.pc = "window", !.voter = NoRow]

\* Lines 376-396: the pre-check for an existing vote, then the flags of the
\* rows fetched at lines 365 and 367.
CheckVoteAndFlags(r, vs) ==
    IF existing_vote(vs, r.poll_id, r.voter_id) THEN Finish(r, "Conflict")
    ELSE IF ~r.poll.is_active THEN Finish(r, "PollInactive")
    ELSE IF ~r.voter.is_verified THEN Finish(r, "VoterUnverified")
    ELSE [r EXCEPT !.pc = "window", !.voter = NoRow]

\* The window check also refusing an election whose is_active is false.
CheckWindow_ElectionActive(db, r, now) ==
    IF r.poll.election \notin DOMAIN db.elections THEN Finish(r, "ServerError")
    ELSE IF ~db.elections[r.poll.election].is_active THEN Finish(r, "ElectionInactive")
    ELSE IF OutsideWindow(now, db.elections[r.poll.election]) THEN Finish(r, "WindowClosed")
    ELSE [r EXCEPT !.pc = "insert"]

\* Lines 398-405: poll.election is fetched lazily (Election.DoesNotExist is
\* not caught by the handler), then the clock is read and compared.
CheckWindow(db, r, now) ==
    IF r.poll.election \notin DOMAIN db.elections THEN Finish(r, "ServerError")
    ELSE IF OutsideWindow(now, db.elections[r.poll.election]) THEN Finish(r, "WindowClosed")
    ELSE [r EXCEPT !.pc = "insert"]

\* The vote written before the window is tested.
WindowStatement_InsertFirst(db, r, vs, now) ==
    [req |-> CheckWindow(db, r, now), votes |-> VoteCreate(db, r, vs, now).votes]

\* The statements of lines 398-405 leave the votes alone.
WindowStatement(db, r, vs, now) == [req |-> CheckWindow(db, r, now), votes |-> vs]

\* One statement of create_vote for request r over the tables db and the
\* votes vs at time now.
Step(db, r, vs, now) ==
    CASE r.pc = "get_poll" ->
           [req |-> IF r.poll_id \in DOMAIN db.polls
                    THEN [r EXCEPT !.pc = "get_candidate", !.poll = db.polls[r.poll_id]]
                    ELSE Finish(r, "NotFoundPoll"),
            votes |-> vs]
      [] r.pc = "get_candidate" ->
           [req |-> IF r.candidate_id \in DOMAIN db.candidates
                    THEN [r EXCEPT !.pc = "get_voter",
                                   !.candidate = db.candidates[r.candidate_id]]
                    ELSE Finish(r, "NotFoundCandidate"),
            votes |-> vs]
      [] r.pc = "get_voter" ->
           [req |-> IF r.voter_id \in DOMAIN db.voters
                    THEN [r EXCEPT !.pc = "belongs", !.voter = db.voters[r.voter_id]]
                    ELSE Finish(r, "NotFoundVoter"),
            votes |-> vs]
      [] r.pc = "belongs" ->
           \* candidate.poll is fetched lazily: Poll.DoesNotExist if it is gone.
           [req |-> IF r.candidate.poll \notin DOMAIN db.polls
                    THEN Finish(r, "NotFoundPoll")
                    ELSE IF NotBelongs(r.candidate, r.poll_id)
                    THEN Finish(r, "InvalidReference")
                    ELSE [r EXCEPT !.pc = "existing", !.candidate = NoRow],
            votes |-> vs]
      [] r.pc = "existing" -> [req |-> CheckVoteAndFlags(r, vs), votes |-> vs]
      [] r.pc = "window" -> WindowStatement(db, r, vs, now)
      [] r.pc = "insert" -> VoteCreate(db, r, vs, now)

RECURSIVE Run(_, _, _, _)
\* The whole handler, run without another request in between.
Run(db, r, vs, now) ==
    IF r.pc = "done" THEN [req |-> r, votes |-> vs]
    ELSE LET s == Step(db, r, vs, now) IN Run(db, s.req, s.votes, now)

\* The tables that create_vote reads besides the votes.
Db == [elections |-> elections, polls |-> polls, candidates |-> candidates,
       voters |-> voters]

\* A request served from start to end.
create_vote(p, c, v) ==
    LET out == Run(Db, Begin(p, c, v), votes, clock) IN
    /\ out.votes # votes => NextId(votes) <= MaxVoteId
    /\ votes' = out.votes
    /\ resp' = Log([op |-> "create_vote", poll_id |-> p, candidate_id |-> c,
                     voter_id |-> v, result |-> out.req.result])
    /\ UNCHANGED <<elections, polls, candidates, voters, clock, req>>

\* The server's thread pool takes a create_vote request whose statements
\* are followed one by one.
\* database.connect() raises OperationalError when the thread's connection
\* is still open: the body does not run and nothing closes the connection.
BeginVote(p, c, v) ==
    /\ req.pc \in {"idle", "done"}
    /\ req' = IF req.conn
              THEN [Finish(Begin(p, c, v), "ServerError") EXCEPT !.conn = TRUE]
              ELSE Begin(p, c, v)
    /\ UNCHANGED <<store, clock, resp>>

\* The thread of the followed request runs its next statement.
StepVote ==
    /\ req.pc \notin {"idle", "done"}
    /\ LET out == Step(Db, req, votes, clock) IN
       /\ out.votes # votes => NextId(votes) <= MaxVoteId
       /\ votes' = out.votes
       /\ req' = out.req
    /\ UNCHANGED <<elections, polls, candidates, voters, clock, resp>>

----------------------------------------------------------------------------
\* get_poll_results (main.py 430-465).  Percentages are kept in hundredths
\* of a percent.

\* Vote.select().where(...).count()
Count(S) == Cardinality(S)

VotesForCandidate(c) == {i \in DOMAIN votes : votes[i].candidate = c}

VotesInPoll(p) == {i \in DOMAIN votes : votes[i].poll = p}

\* Ties rounded up, away from zero.
Round2_HalfUp(n, d) ==
    LET q == (n * 10000) \div d
        twice == 2 * ((n * 10000) % d)
    IN  IF twice < d THEN q ELSE q + 1

\* round(x, 2) of x = n / d * 100, as hundredths: to the nearest, a tie to
\* the even neighbour.  Python rounds the double x correctly; with fewer
\* than 160 votes x is exact whenever n / d * 100 is a tie (d is then a
\* multiple of 32) and never crosses a tie otherwise, so the exact
\* arithmetic here gives the value the handler returns.
Round2(n, d) ==
    LET q == (n * 10000) \div d
        twice == 2 * ((n * 10000) % d)
    IN  IF twice < d THEN q
        ELSE IF twice > d THEN q + 1
        ELSE IF q % 2 = 0 THEN q ELSE q + 1

Percentage(votes_count, poll_votes) ==
    IF poll_votes > 0 THEN Round2(votes_count, poll_votes) ELSE 0

\* The orders in which the query behind poll.candidates, which has no
\* ORDER BY, may return the candidates of poll p.
CandidateOrders(p) ==
    LET cs == CandidatesOf(candidates, {p})
    IN  {seq \in [1..Cardinality(cs) -> cs] : \A i, j \in DOMAIN seq : i # j => seq[i] # seq[j]}

ResultRow(c, p) ==
    [candidate_id |-> c, votes |-> Count(VotesForCandidate(c)),
     percentage |-> Percentage(Count(VotesForCandidate(c)), Count(VotesInPoll(p)))]

RECURSIVE InsertByVotes(_, _)
\* row put into the sorted rows after every row with as many votes or more.
InsertByVotes(rows, row) ==
    IF rows = << >> THEN <<row>>
    ELSE IF Head(rows).votes >= row.votes
         THEN <<Head(rows)>> \o InsertByVotes(Tail(rows), row)
         ELSE <<row>> \o rows

\* The call of results.sort left out.
SortByVotes_NotSorted(rows) == rows

RECURSIVE SortByVotes(_)
\* results.sort(key=lambda x: x["votes"], reverse=True): stable.
SortByVotes(rows) ==
    IF rows = << >> THEN << >>
    ELSE InsertByVotes(SortByVotes(SubSeq(rows, 1, Len(rows) - 1)), rows[Len(rows)])

RECURSIVE SumVotes(_)
\* total_votes += votes_count over the loop.
SumVotes(rows) == IF rows = << >> THEN 0 ELSE Head(rows).votes + SumVotes(Tail(rows))

PollResults(p, order) ==
    LET rows == [i \in DOMAIN order |-> ResultRow(order[i], p)]
    IN  [op |-> "get_poll_results", poll_id |-> p, result |-> "ok",
         total_votes |-> SumVotes(rows),
         unique_voters |-> Count(VotesInPoll(p)),
         results |-> SortByVotes(rows)]

\* The poll closed when its results are read.
get_poll_results_ClosesPoll(p) ==
    /\ IF p \notin DOMAIN polls
       THEN /\ resp' = Log([op |-> "get_poll_results", poll_id |-> p, result |-> "NotFoundPoll"])
            /\ UNCHANGED polls
       ELSE /\ \E order \in CandidateOrders(p) : resp' = Log(PollResults(p, order))
            /\ polls' = [polls EXCEPT ![p].is_active = FALSE]
    /\ UNCHANGED <<elections, candidates, voters, votes, clock, req>>

get_poll_results(p) ==
    /\ IF p \notin DOMAIN polls
       THEN resp' = Log([op |-> "get_poll_results", poll_id |-> p, result |-> "NotFoundPoll"])
       ELSE \E order \in CandidateOrders(p) : resp' = Log(PollResults(p, order))
    /\ UNCHANGED <<store, clock, req>>

----------------------------------------------------------------------------
\* get_election_stats (main.py 467-500).

\* The orders in which the query behind election.polls, which has no
\* ORDER BY, may return the polls of election e.
PollOrders(e) ==
    LET ps == PollsOf(polls, {e})
    IN  {seq \in [1..Cardinality(ps) -> ps] : \A i, j \in DOMAIN seq : i # j => seq[i] # seq[j]}

PollStats(p) ==
    [poll_id |-> p, votes_count |-> Count(VotesInPoll(p)),
     candidates_count |-> Count(CandidatesOf(candidates, {p}))]

RECURSIVE SumVotesCount(_)
\* total_votes += poll_votes over the loop.
SumVotesCount(rows) ==
    IF rows = << >> THEN 0 ELSE Head(rows).votes_count + SumVotesCount(Tail(rows))

\* The voters counted as COUNT(DISTINCT voter).
TotalVoters_DistinctVoters(e) ==
    Count({votes[i].voter : i \in {j \in DOMAIN votes : votes[j].poll \in PollsOf(polls, {e})}})

\* Vote.select().where(Vote.poll.in_(election.polls)).count(): the rows of
\* the votes table whose poll is a poll of the election.
TotalVoters(e) == Count({i \in DOMAIN votes : votes[i].poll \in PollsOf(polls, {e})})

ElectionStats(e, order) ==
    LET rows == [i \in DOMAIN order |-> PollStats(order[i])]
    IN  [op |-> "get_election_stats", election_id |-> e, result |-> "ok",
         total_polls |-> Count(PollsOf(polls, {e})),
         total_votes |-> SumVotesCount(rows),
         total_unique_voters |-> TotalVoters(e),
         polls |-> rows]

get_election_stats(e) ==
    /\ IF e \notin DOMAIN elections
       THEN resp' = Log([op |-> "get_election_stats", election_id |-> e,
                         result |-> "NotFoundElection"])
       ELSE \E order \in PollOrders(e) : resp' = Log(ElectionStats(e, order))
    /\ UNCHANGED <<store, clock, req>>

----------------------------------------------------------------------------
Idle == [pc |-> "idle", conn |-> FALSE]

Init ==
    /\ elections = << >>
    /\ polls = << >>
    /\ candidates = << >>
    /\ voters = << >>
    /\ votes = << >>
    /\ clock = 0
    /\ req = Idle
    /\ resp = NoResponse

\* The requests of the CRUD handlers.  The columns that create_vote and
\* the tallies never read keep one value here (Election.is_active TRUE,
\* max_votes_per_voter 1, the email of the only voter 1); they vary in
\* SpecFields and SpecVoters.
Crud ==
    \/ \E s, e \in Times : create_election(s, e, TRUE)
    \/ \E id \in AllE, s, e \in Times : update_election(id, s, e, TRUE)
    \/ \E id \in AllE : delete_election(id)
    \/ \E e \in AllE, a \in BOOLEAN : create_poll(e, a, 1)
    \/ \E id \in AllP, e \in AllE, a \in BOOLEAN : update_poll(id, e, a, 1)
    \/ \E id \in AllP : delete_poll(id)
    \/ \E p \in AllP : create_candidate(p)
    \/ \E id \in AllC, p \in AllP : update_candidate(id, p)
    \/ \E id \in AllC : delete_candidate(id)
    \/ \E v \in BOOLEAN : create_voter(1, v)
    \/ \E id \in AllV, v \in BOOLEAN : update_voter(id, 1, v)
    \/ \E id \in AllV : delete_voter(id)

\* Requests served one at a time.
Next ==
    \/ Crud
    \/ Tick
    \/ \E p \in AllP, c \in AllC, v \in AllV : create_vote(p, c, v)
    \/ \E p \in AllP : get_poll_results(p)
    \/ \E e \in AllE : get_election_stats(e)

Spec == Init /\ [][Next]_vars

\* Requests served by concurrent threads: one create_vote request is
\* followed statement by statement, and the other requests (create_vote
\* among them) are served between two of its statements.  The clock
\* does not advance in these runs.
InitConc ==
    /\ elections = << >>
    /\ polls = << >>
    /\ candidates = << >>
    /\ voters = << >>
    /\ votes = << >>
    /\ clock = 0
    /\ req = Idle
    /\ resp = Unrecorded

NextConc ==
    \/ Crud
    \/ \E p \in AllP, c \in AllC, v \in AllV : create_vote(p, c, v)
    \/ \E p \in AllP, c \in AllC, v \in AllV : BeginVote(p, c, v)
    \/ StepVote

SpecConc == InitConc /\ [][NextConc]_vars

\* The tally of a poll after n voters have voted in it, k of them for
\* candidate 1 and the others for candidate 2: one election whose window
\* holds the clock, one active poll with two candidates, n verified voters
\* with one vote each.  The read-only handlers are then called.
InitTally ==
    \E n \in 0..MaxTallyVotes : \E k \in 0..n :
        /\ elections = [e \in {1} |-> [start_date |-> 0, end_date |-> 1, is_active |-> TRUE]]
        /\ polls = [p \in {1} |-> [election |-> 1, is_active |-> TRUE,
                                   max_votes_per_voter |-> 1]]
        /\ candidates = [c \in {1, 2} |-> [poll |-> 1]]
        /\ voters = [v \in 1..n |-> [email |-> v, is_verified |-> TRUE]]
        /\ votes = [i \in 1..n |-> [poll |-> 1, candidate |-> IF i <= k THEN 1 ELSE 2,
                                     voter |-> i, voted_at |-> 0]]
        /\ clock = 0
        /\ req = Idle
        /\ resp = NoResponse

NextTally ==
    \/ \E p \in AllP : get_poll_results(p)
    \/ \E e \in AllE : get_election_stats(e)

SpecTally == InitTally /\ [][NextTally]_vars

\* The register of voters: it starts with up to MaxRegistered voters, who
\* were registered under distinct emails, and serves the requests of the
\* voter handlers with every email.
InitVoters ==
    \E n \in 0..MaxRegistered :
        \E mail \in [1..n -> Emails], flag \in [1..n -> BOOLEAN] :
            /\ \A i, j \in 1..n : mail[i] = mail[j] => i = j
            /\ elections = << >>
            /\ polls = << >>
            /\ candidates = << >>
            /\ voters = [v \in 1..n |-> [email |-> mail[v], is_verified |-> flag[v]]]
            /\ votes = << >>
            /\ clock = 0
            /\ req = Idle
            /\ resp = NoResponse

NextVoters ==
    \/ \E m \in Emails, v \in BOOLEAN : create_voter(m, v)
    \/ \E id \in 1..MaxRegistered, m \in Emails, v \in BOOLEAN : update_voter(id, m, v)
    \/ \E id \in 1..MaxRegistered : delete_voter(id)

SpecVoters == InitVoters /\ [][NextVoters]_vars

\* One election with one poll, two candidates and one voter, whose columns
\* are then updated with every value, max_votes_per_voter and
\* Election.is_active included, while votes are cast and time passes.
InitFields ==
    /\ elections = [e \in {1} |-> [start_date |-> 0, end_date |-> 1, is_active |-> TRUE]]
    /\ polls = [p \in {1} |-> [election |-> 1, is_active |-> TRUE, max_votes_per_voter |-> 1]]
    /\ candidates = [c \in {1, 2} |-> [poll |-> 1]]
    /\ voters = [v \in {1} |-> [email |-> 1, is_verified |-> TRUE]]
    /\ votes = << >>
    /\ clock = 0
    /\ req = Idle
    /\ resp = NoResponse

NextFields ==
    \/ \E s, e \in Times, a \in BOOLEAN : update_election(1, s, e, a)
    \/ \E a \in BOOLEAN, m \in 1..MaxVotesPerVoter : update_poll(1, 1, a, m)
    \/ \E v \in BOOLEAN : update_voter(1, 1, v)
    \/ \E c \in {1, 2} : create_vote(1, c, 1)
    \/ Tick

SpecFields == InitFields /\ [][NextFields]_vars

\* One create_vote request followed statement by statement while the clock
\* runs, over a store that holds one election with its window, one active
\* poll with two candidates and one verified voter.
InitClock ==
    /\ \E s, e \in Times :
          /\ ~BadDates(s, e)
          /\ elections = [x \in {1} |-> [start_date |-> s, end_date |-> e,
                                         is_active |-> TRUE]]
    /\ polls = [p \in {1} |-> [election |-> 1, is_active |-> TRUE,
                               max_votes_per_voter |-> 1]]
    /\ candidates = [c \in {1, 2} |-> [poll |-> 1]]
    /\ voters = [v \in {1} |-> [email |-> 1, is_verified |-> TRUE]]
    /\ votes = << >>
    /\ clock = 0
    /\ req = Idle
    /\ resp = Unrecorded

NextClock ==
    \/ \E p \in AllP, c \in AllC, v \in AllV : BeginVote(p, c, v)
    \/ StepVote
    \/ Tick

SpecClock == InitClock /\ [][NextClock]_vars

----------------------------------------------------------------------------
\* Properties.

\* C1: in every reachable state, under any interleaving of create_vote
\* requests with each other and with the other handlers, no two Vote rows
\* have the same (poll, voter) pair.
C1_OneVotePerPollVoter ==
    \A i, j \in DOMAIN votes :
        (votes[i].poll = votes[j].poll /\ votes[i].voter = votes[j].voter) => i = j

\* The followed request passed the pre-check, another request committed a
\* vote for the same pair, and the insert of the followed one was refused.
C1_Witness ==
    /\ req.pc = "done"
    /\ req.result = OnIntegrityError
    /\ \E i \in DOMAIN votes :
          /\ votes[i].poll = req.poll_id
          /\ votes[i].voter = req.voter_id
          /\ req.candidate_id \in DOMAIN candidates
          /\ req.poll_id \in DOMAIN polls

\* C2: of concurrent create_vote requests for one (poll, voter) pair that
\* pass every other check, one commits a Vote and every other one is
\* rejected with Conflict, also when only the unique index of the store
\* detects the duplicate, at the insert.
C2_DuplicateAtInsertIsConflict ==
    [][(/\ req.pc = "insert"
        /\ req'.pc = "done"
        /\ UniqueViolation(votes, req.poll_id, req.voter_id)
        /\ ~ForeignKeyViolation(Db, req.poll_id, req.candidate_id, req.voter_id))
       => (/\ req'.result = "Conflict"
           /\ votes' = votes
           /\ C1_OneVotePerPollVoter')]_vars

\* The error kinds of the admission logic.
Kind(result) ==
    CASE result \in {"NotFoundPoll", "NotFoundCandidate", "NotFoundVoter"} -> "NotFound"
      [] result = "InvalidReference" -> "InvalidReference"
      [] result = "Conflict" -> "Conflict"
      [] result \in {"PollInactive", "VoterUnverified", "WindowClosed"} -> "InvalidState"
      [] OTHER -> result

HasVoted(p, v) == \E i \in DOMAIN votes : votes[i].poll = p /\ votes[i].voter = v

WindowOpen(p) ==
    /\ elections[polls[p].election].start_date <= clock
    /\ clock <= elections[polls[p].election].end_date

\* The first check, in the documented order, that a request for (p, c, v)
\* fails in the current state.
FirstFailing(p, c, v) ==
    IF p \notin DOMAIN polls THEN "NotFoundPoll"
    ELSE IF c \notin DOMAIN candidates THEN "NotFoundCandidate"
    ELSE IF v \notin DOMAIN voters THEN "NotFoundVoter"
    ELSE IF candidates[c].poll # p THEN "InvalidReference"
    ELSE IF HasVoted(p, v) THEN "Conflict"
    ELSE IF ~polls[p].is_active THEN "PollInactive"
    ELSE IF ~voters[v].is_verified THEN "VoterUnverified"
    ELSE IF ~WindowOpen(p) THEN "WindowClosed"
    ELSE "ok"

\* C3: a create_vote request served on its own returns the error of the
\* first check that fails in the order poll exists, candidate exists, voter
\* exists, candidate belongs to the poll, no vote of the voter in the poll,
\* poll active, voter verified, time within the election window; it
\* succeeds when none fails.
C3_FirstFailingCheck ==
    [][resp'.op = "create_vote"
       => resp'.result = FirstFailing(resp'.poll_id, resp'.candidate_id, resp'.voter_id)]_vars

\* A request that fails four checks at once (vote present, poll inactive,
\* voter unverified, window closed) and is answered with the first.
C3_Witness ==
    /\ resp.op = "create_vote"
    /\ resp.result = "Conflict"
    /\ ~polls[resp.poll_id].is_active
    /\ ~voters[resp.voter_id].is_verified
    /\ ~WindowOpen(resp.poll_id)

\* C4: at the instant a Vote row is inserted its poll is active, its voter
\* is verified, its candidate belongs to its poll and the time lies within
\* the window of the poll's election, whatever update requests run
\* concurrently with the create_vote request.
C4_ChecksHoldAtInsert ==
    [][\A i \in DOMAIN votes' \ DOMAIN votes :
         LET row == votes'[i] IN
         /\ polls[row.poll].is_active
         /\ voters[row.voter].is_verified
         /\ candidates[row.candidate].poll = row.poll
         /\ WindowOpen(row.poll)]_vars

\* C5: in every reachable state the candidate of each Vote belongs to the
\* poll of that Vote.
C5_VoteCandidateInPoll ==
    \A i \in DOMAIN votes : candidates[votes[i].candidate].poll = votes[i].poll

RECURSIVE SumOfVotes(_)
SumOfVotes(rows) ==
    IF rows = << >> THEN 0 ELSE rows[1].votes + SumOfVotes(Tail(rows))

\* C6: every result of get_poll_results has total_votes equal to the sum
\* of the votes of the returned candidates and unique_voters equal to
\* total_votes.
C6_TotalsAgree ==
    (resp.op = "get_poll_results" /\ resp.result = "ok")
    => /\ resp.total_votes = SumOfVotes(resp.results)
       /\ resp.unique_voters = resp.total_votes

\* C7: create_vote for an existing poll, candidate and voter, where the
\* candidate's poll is not the requested poll, returns InvalidReference
\* and adds no Vote, whatever the votes, flags and window are.
C7_ForeignCandidateRejected ==
    [][(/\ resp'.op = "create_vote"
        /\ resp'.poll_id \in DOMAIN polls
        /\ resp'.candidate_id \in DOMAIN candidates
        /\ resp'.voter_id \in DOMAIN voters
        /\ candidates[resp'.candidate_id].poll # resp'.poll_id)
       => (resp'.result = "InvalidReference" /\ votes' = votes)]_vars

\* InvalidReference returned although the voter has voted in the poll, the
\* poll is inactive and the voter unverified.
C7_Witness ==
    /\ resp.op = "create_vote"
    /\ resp.result = "InvalidReference"
    /\ candidates[resp.candidate_id].poll # resp.poll_id
    /\ HasVoted(resp.poll_id, resp.voter_id)
    /\ ~polls[resp.poll_id].is_active
    /\ ~voters[resp.voter_id].is_verified

\* A request for (p, c, v) passes every check that precedes the window
\* check.
PassesUpToFlags(p, c, v) ==
    /\ p \in DOMAIN polls /\ c \in DOMAIN candidates /\ v \in DOMAIN voters
    /\ candidates[c].poll = p
    /\ ~HasVoted(p, v)
    /\ polls[p].is_active
    /\ voters[v].is_verified

\* C8: with the earlier checks passing, create_vote is rejected with
\* InvalidState when the time is strictly before start_date or strictly
\* after end_date of the poll's election, and succeeds from start_date to
\* end_date, both included.
C8_WindowInclusive ==
    [][(/\ resp'.op = "create_vote"
        /\ PassesUpToFlags(resp'.poll_id, resp'.candidate_id, resp'.voter_id))
       => LET el == elections[polls[resp'.poll_id].election] IN
          /\ (clock < el.start_date \/ clock > el.end_date)
                => (resp'.result = "WindowClosed" /\ Kind(resp'.result) = "InvalidState")
          /\ clock = el.start_date => resp'.result = "ok"
          /\ clock = el.end_date => resp'.result = "ok"
          /\ (el.start_date < clock /\ clock < el.end_date) => resp'.result = "ok"]_vars

\* A vote admitted at the last instant of the window, in a store that
\* also holds a vote admitted at the first instant of its window.
C8_Witness ==
    /\ resp.op = "create_vote"
    /\ resp.result = "ok"
    /\ clock = elections[polls[resp.poll_id].election].end_date
    /\ \E i, j \in DOMAIN votes :
          /\ votes[i].poll = resp.poll_id /\ votes[i].voted_at = clock
          /\ votes[j].voted_at = elections[polls[votes[j].poll].election].start_date

\* C9: when poll, candidate and voter exist, the candidate belongs to the
\* poll and the voter has no vote in it, create_vote returns InvalidState
\* and adds no Vote if the poll is inactive or the voter unverified; the
\* store itself would accept the row.
C9_FlagsGateAdmission ==
    [][(/\ resp'.op = "create_vote"
        /\ resp'.poll_id \in DOMAIN polls
        /\ resp'.candidate_id \in DOMAIN candidates
        /\ resp'.voter_id \in DOMAIN voters
        /\ candidates[resp'.candidate_id].poll = resp'.poll_id
        /\ ~HasVoted(resp'.poll_id, resp'.voter_id)
        /\ (~polls[resp'.poll_id].is_active \/ ~voters[resp'.voter_id].is_verified))
       => /\ Kind(resp'.result) = "InvalidState"
          /\ resp'.result \in {"PollInactive", "VoterUnverified"}
          /\ votes' = votes
          /\ VoteCreate(Db, Begin(resp'.poll_id, resp'.candidate_id, resp'.voter_id),
                        votes, clock).req.result = "ok"]_vars

\* The scenario of the specification: inactive poll, verified voter, open
\* window, nobody has voted.
C9_Witness ==
    /\ resp.op = "create_vote"
    /\ resp.result = "PollInactive"
    /\ voters[resp.voter_id].is_verified
    /\ WindowOpen(resp.poll_id)
    /\ votes = << >>

\* C10: a create_vote request that ends in an error leaves every table as
\* it was; one that succeeds adds exactly its Vote row and changes nothing
\* else.
C10_AllOrNothing ==
    [][resp'.op = "create_vote"
       => IF resp'.result # "ok"
          THEN UNCHANGED store
          ELSE /\ UNCHANGED <<elections, polls, candidates, voters>>
               /\ \E i \in DOMAIN votes' \ DOMAIN votes :
                     /\ DOMAIN votes' = DOMAIN votes \cup {i}
                     /\ \A j \in DOMAIN votes : votes'[j] = votes[j]
                     /\ votes'[i].poll = resp'.poll_id
                     /\ votes'[i].candidate = resp'.candidate_id
                     /\ votes'[i].voter = resp'.voter_id]_vars

\* A request refused by the last check before the insert, every earlier
\* check passed.
C10_Witness ==
    /\ resp.op = "create_vote"
    /\ resp.result = "WindowClosed"
    /\ PassesUpToFlags(resp.poll_id, resp.candidate_id, resp.voter_id)

\* C11: once a vote of voter V in poll P is stored (create_vote(P, c, V)
\* succeeded and the row was not deleted), every later create_vote(P, c', V)
\* with P, c', V existing and c' a candidate of P, the same candidate or
\* another one, returns Conflict and adds no Vote.
C11_SecondVoteIsConflict ==
    [][(/\ resp'.op = "create_vote"
        /\ resp'.poll_id \in DOMAIN polls
        /\ resp'.candidate_id \in DOMAIN candidates
        /\ resp'.voter_id \in DOMAIN voters
        /\ candidates[resp'.candidate_id].poll = resp'.poll_id
        /\ HasVoted(resp'.poll_id, resp'.voter_id))
       => (resp'.result = "Conflict" /\ votes' = votes)]_vars

\* The scenario of the specification: the voter has voted for one candidate
\* of the poll and asks for the other one, while the poll is active, the
\* voter verified and the window open.
C11_Witness ==
    /\ resp.op = "create_vote"
    /\ resp.result = "Conflict"
    /\ candidates[resp.candidate_id].poll = resp.poll_id
    /\ polls[resp.poll_id].is_active
    /\ voters[resp.voter_id].is_verified
    /\ WindowOpen(resp.poll_id)
    /\ \E i \in DOMAIN votes :
          /\ votes[i].poll = resp.poll_id
          /\ votes[i].voter = resp.voter_id
          /\ votes[i].candidate # resp.candidate_id
          /\ candidates[votes[i].candidate].poll = resp.poll_id

\* C12: get_poll_results on an existing poll without votes returns every
\* candidate of the poll with votes = 0 and percentage = 0, total_votes = 0
\* and unique_voters = 0 (and does not fail with a division error: the
\* response is a result).
C12_EmptyPollAllZero ==
    (/\ resp.op = "get_poll_results"
     /\ resp.result = "ok"
     /\ VotesInPoll(resp.poll_id) = {})
    => /\ {resp.results[i].candidate_id : i \in DOMAIN resp.results}
             = CandidatesOf(candidates, {resp.poll_id})
       /\ \A i \in DOMAIN resp.results :
             resp.results[i].votes = 0 /\ resp.results[i].percentage = 0
       /\ resp.total_votes = 0
       /\ resp.unique_voters = 0

\* C13: the results of get_poll_results hold exactly one entry per
\* candidate of the poll, the votes of an entry are the number of Vote rows
\* that reference its candidate, and the entries are in non-increasing
\* order of votes.
C13_OneEntryPerCandidateSorted ==
    (resp.op = "get_poll_results" /\ resp.result = "ok")
    => LET rs == resp.results
           cs == CandidatesOf(candidates, {resp.poll_id})
       IN  /\ Len(rs) = Cardinality(cs)
           /\ {rs[i].candidate_id : i \in DOMAIN rs} = cs
           /\ \A i \in DOMAIN rs :
                 rs[i].votes
                    = Cardinality({j \in DOMAIN votes : votes[j].candidate = rs[i].candidate_id})
           /\ \A i, j \in DOMAIN rs : i < j => rs[i].votes >= rs[j].votes

\* Two candidates, the one with the larger id has more votes and comes
\* first.
C13_Witness ==
    /\ resp.op = "get_poll_results"
    /\ resp.result = "ok"
    /\ Len(resp.results) = 2
    /\ resp.results[1].votes > resp.results[2].votes
    /\ resp.results[1].candidate_id > resp.results[2].candidate_id

\* C14: in every result of get_poll_results the percentage of a candidate
\* is 0 when the returned total_votes is 0, and otherwise is votes /
\* total_votes * 100 to two decimals (within half a hundredth), total_votes
\* being the total of the same response.
C14_PercentageOfReturnedTotal ==
    (resp.op = "get_poll_results" /\ resp.result = "ok")
    => \A i \in DOMAIN resp.results :
          LET row == resp.results[i]
              total == resp.total_votes
              diff == row.percentage * total - row.votes * 10000
          IN  IF total = 0 THEN row.percentage = 0
              ELSE 2 * diff <= total /\ -2 * diff <= total

\* votes / total * 100 lies exactly halfway between two values of two
\* decimals.
IsTie(votes_count, total) ==
    total > 0 /\ 2 * ((votes_count * 10000) % total) = total

\* C15 as stated: when votes / total_votes * 100 lies exactly halfway
\* between two values of two decimals (1 vote out of 32 = 3.125),
\* get_poll_results rounds the percentage half away from zero (3.13).
C15_HalfAwayFromZero ==
    (resp.op = "get_poll_results" /\ resp.result = "ok")
    => \A i \in DOMAIN resp.results :
          IsTie(resp.results[i].votes, resp.total_votes)
          => resp.results[i].percentage
                = ((resp.results[i].votes * 10000) \div resp.total_votes) + 1

\* C15 amended: when votes / poll_votes * 100 (poll_votes the number of
\* Vote rows of the poll, returned as unique_voters) is exactly halfway
\* between two values of two decimals, get_poll_results returns the
\* neighbour whose last digit is even (3.12 for 1 vote out of 32).
C15_HalfToEven ==
    (resp.op = "get_poll_results" /\ resp.result = "ok")
    => \A i \in DOMAIN resp.results :
          IsTie(resp.results[i].votes, resp.unique_voters)
          => LET q == (resp.results[i].votes * 10000) \div resp.unique_voters
             IN  /\ resp.results[i].percentage \in {q, q + 1}
                 /\ resp.results[i].percentage % 2 = 0

\* The example of the claim: 1 vote out of 32 is reported as 3.12.
C15_Witness ==
    /\ resp.op = "get_poll_results"
    /\ resp.result = "ok"
    /\ resp.unique_voters = 32
    /\ resp.total_votes = 32
    /\ \E i \in DOMAIN resp.results :
          resp.results[i].votes = 1 /\ resp.results[i].percentage = 312

\* C16: the order of the results of get_poll_results is fixed by the store
\* state: candidates with equal votes come in ascending order of candidate
\* id, whatever the order in which the store returns the candidate rows.
C16_TiesByCandidateId ==
    (resp.op = "get_poll_results" /\ resp.result = "ok")
    => \A i, j \in DOMAIN resp.results :
          (i < j /\ resp.results[i].votes = resp.results[j].votes)
          => resp.results[i].candidate_id < resp.results[j].candidate_id

RECURSIVE SumOfVotesCount(_)
SumOfVotesCount(rows) ==
    IF rows = << >> THEN 0 ELSE rows[1].votes_count + SumOfVotesCount(Tail(rows))

\* C17: get_election_stats on an existing election returns total_polls =
\* the number of polls of the election, total_votes = the sum of the
\* votes_count of the returned polls, each the number of Vote rows of that
\* poll, and total_unique_voters = the number of Vote rows whose poll is a
\* poll of the election (a voter with votes in two polls counts twice), so
\* that total_unique_voters = total_votes.
C17_ElectionStats ==
    (resp.op = "get_election_stats" /\ resp.result = "ok")
    => LET ps == {p \in DOMAIN polls : polls[p].election = resp.election_id}
           PollVotes(p) == Cardinality({i \in DOMAIN votes : votes[i].poll = p})
       IN  /\ resp.total_polls = Cardinality(ps)
           /\ {resp.polls[i].poll_id : i \in DOMAIN resp.polls} = ps
           /\ Len(resp.polls) = Cardinality(ps)
           /\ \A i \in DOMAIN resp.polls :
                 resp.polls[i].votes_count = PollVotes(resp.polls[i].poll_id)
           /\ resp.total_votes = SumOfVotesCount(resp.polls)
           /\ resp.total_unique_voters
                 = Cardinality({i \in DOMAIN votes : votes[i].poll \in ps})
           /\ resp.total_unique_voters = resp.total_votes

\* One voter has voted in both polls of the election and is counted twice.
C17_Witness ==
    /\ resp.op = "get_election_stats"
    /\ resp.result = "ok"
    /\ resp.total_polls = 2
    /\ resp.total_unique_voters = 2
    /\ \E i, j \in DOMAIN votes :
          /\ votes[i].poll # votes[j].poll
          /\ votes[i].voter = votes[j].voter

\* C18: get_poll_results and get_election_stats are read-only: whether
\* they return a result or NotFound, the Election, Poll, Candidate, Voter
\* and Vote rows are the same after the call as before it.
C18_ReadOnly ==
    [][resp'.op \in {"get_poll_results", "get_election_stats"}
       => /\ resp'.result \in {"ok", "NotFoundPoll", "NotFoundElection"}
          /\ UNCHANGED store]_vars

\* Results computed for a poll that is active and has a vote.
C18_Witness ==
    /\ resp.op = "get_poll_results"
    /\ resp.result = "ok"
    /\ polls[resp.poll_id].is_active
    /\ resp.unique_voters > 0

\* C19: deletes cascade (poll to its candidates and votes, candidate to its
\* votes, election to its polls, voter to its votes), so that in every
\* reachable state, under any interleaving of deletes with create_vote,
\* every Vote references an existing poll, candidate and voter, every
\* Candidate an existing poll and every Poll an existing election.
C19_NoDanglingReference ==
    /\ \A i \in DOMAIN votes :
          /\ votes[i].poll \in DOMAIN polls
          /\ votes[i].candidate \in DOMAIN candidates
          /\ votes[i].voter \in DOMAIN voters
    /\ \A c \in DOMAIN candidates : candidates[c].poll \in DOMAIN polls
    /\ \A p \in DOMAIN polls : polls[p].election \in DOMAIN elections

\* The voter of the followed request was deleted after the request had
\* fetched it, and the insert was refused by the foreign key: poll,
\* election and candidate are there and the pair has no vote.
C19_Witness ==
    /\ req.pc = "done"
    /\ req.result = OnIntegrityError
    /\ req.voter_id \notin DOMAIN voters
    /\ req.poll_id \in DOMAIN polls
    /\ req.candidate_id \in DOMAIN candidates
    /\ candidates[req.candidate_id].poll = req.poll_id
    /\ votes = << >>

\* C20: create_election and update_election refuse dates with start_date
\* not strictly before end_date with an error and leave the store as it
\* was; every Election of the store has start_date < end_date.
C20_StartBeforeEnd ==
    [][/\ \A e \in DOMAIN elections' :
             elections'[e].start_date < elections'[e].end_date
       /\ (resp'.op \in {"create_election", "update_election"} /\ resp'.result # "ok")
             => UNCHANGED store
       /\ (resp'.op \in {"create_election", "update_election"} /\ resp'.result = "ok")
             => UNCHANGED <<polls, candidates, voters, votes>>]_vars

\* An update with bad dates was refused and the election kept its dates.
C20_Witness ==
    /\ resp.op = "update_election"
    /\ resp.result = "BadDates"
    /\ \E e \in DOMAIN elections : elections[e].start_date < elections[e].end_date

\* C21: voter emails are unique: create_voter or update_voter with an
\* email that another voter holds is refused with an error and leaves the
\* store as it was, and no two Voter rows have the same email.
C21_EmailsUnique ==
    [][/\ \A i, j \in DOMAIN voters' : voters'[i].email = voters'[j].email => i = j
       /\ (/\ resp'.op \in {"create_voter", "update_voter"}
           /\ \E i \in DOMAIN voters \ {resp'.voter_id} : voters[i].email = resp'.email)
          => (resp'.result # "ok" /\ UNCHANGED store)]_vars

\* An existing voter asked for the email of another voter and was refused.
C21_Witness ==
    /\ resp.op = "update_voter"
    /\ resp.result = "EmailTaken"
    /\ resp.voter_id \in DOMAIN voters
    /\ voters[resp.voter_id].email # resp.email
    /\ \E i \in DOMAIN voters : voters[i].email = resp.email

\* C22: the one-vote restriction is per poll: a voter with a Vote in
\* another poll (of the same election or not) casts a vote in poll P when
\* every check for P passes, and the votes already stored stay as they
\* were.
C22_OneVotePerPollOnly ==
    [][(/\ resp'.op = "create_vote"
        /\ PassesUpToFlags(resp'.poll_id, resp'.candidate_id, resp'.voter_id)
        /\ WindowOpen(resp'.poll_id)
        /\ \E i \in DOMAIN votes :
              votes[i].voter = resp'.voter_id /\ votes[i].poll # resp'.poll_id)
       => /\ resp'.result = "ok"
          /\ \A i \in DOMAIN votes : i \in DOMAIN votes' /\ votes'[i] = votes[i]
          /\ Cardinality(DOMAIN votes') = Cardinality(DOMAIN votes) + 1]_vars

\* The voter has just voted in a second poll of the same election.
C22_Witness ==
    /\ resp.op = "create_vote"
    /\ resp.result = "ok"
    /\ \E i, j \in DOMAIN votes :
          /\ votes[i].voter = resp.voter_id /\ votes[i].poll = resp.poll_id
          /\ votes[j].voter = resp.voter_id /\ votes[j].poll # resp.poll_id
          /\ polls[votes[i].poll].election = polls[votes[j].poll].election

\* C24: votes are create-only and immutable: no step changes the poll,
\* candidate, voter or voted_at of a stored Vote, and a Vote leaves the
\* store only in a step that deletes its poll (alone or with its
\* election), its candidate or its voter.
C24_VotesImmutable ==
    [][\A i \in DOMAIN votes :
          IF i \in DOMAIN votes'
          THEN votes'[i] = votes[i]
          ELSE \/ votes[i].poll \notin DOMAIN polls'
               \/ votes[i].candidate \notin DOMAIN candidates'
               \/ votes[i].voter \notin DOMAIN voters']_vars

\* The first vote left with its candidate; the second one is still there
\* with its poll, candidate and voter.
C24_Witness ==
    /\ resp.op = "delete_candidate"
    /\ resp.result = "ok"
    /\ DOMAIN votes = {2}
    /\ votes[2].poll \in DOMAIN polls
    /\ votes[2].candidate \in DOMAIN candidates

\* C27: also after update_candidate has moved a candidate to another
\* poll, every entry of get_poll_results has 0 <= percentage <= 100, and a
\* percentage of 0 only with votes = 0 or with no vote in the poll.
C27_PercentageInRange ==
    (resp.op = "get_poll_results" /\ resp.result = "ok")
    => \A i \in DOMAIN resp.results :
          /\ 0 <= resp.results[i].percentage
          /\ resp.results[i].percentage <= 10000
          /\ resp.results[i].percentage = 0
                => (resp.results[i].votes = 0 \/ VotesInPoll(resp.poll_id) = {})

\* C25: every stored vote has its voted_at within [start_date, end_date] of
\* the election of its poll (the elections are not updated while the
\* request is served, so the window is the one the vote was admitted
\* under), also when the clock advances between the window check and the
\* insert.
C25_VotedAtInWindow ==
    \A i \in DOMAIN votes :
       LET election == elections[polls[votes[i].poll].election]
       IN  election.start_date <= votes[i].voted_at
           /\ votes[i].voted_at <= election.end_date

\* C26: the connection a request opened is closed when its handler has
\* returned or raised, whatever the exit path, and a request starts only
\* with the connection closed and then opens it.
C26_ConnectionReleased ==
    [][/\ req'.pc = "done" => ~req'.conn
       /\ (req.pc \in {"idle", "done"} /\ req' # req)
          => (~req.conn /\ req'.pc = "get_poll" /\ req'.conn)]_vars

\* A request that left its with block by an exception the handler does not
\* catch, after the request before it had been served, with the connection
\* closed.
C26_Witness ==
    /\ req.pc = "done"
    /\ req.result = "ServerError"
    /\ ~req.conn
    /\ votes # << >>

\* What a create_vote request for (p, c, v) returns, and the votes it
\* leaves, when it is served over the tables db with the current votes and
\* clock.
Outcome(db, p, c, v) ==
    LET out == Run(db, Begin(p, c, v), votes, clock)
    IN  [result |-> out.req.result, votes |-> out.votes]

\* C23: max_votes_per_voter has no effect on admission: in the current
\* store and in every store that differs from it only in the
\* max_votes_per_voter of one poll, every create_vote request has the same
\* outcome; and whatever the value, a voter has at most one vote per poll.
C23_MaxVotesIgnored ==
    /\ \A p0 \in DOMAIN polls, m \in 1..MaxVotesPerVoter :
          LET other == [Db EXCEPT !.polls[p0].max_votes_per_voter = m]
          IN  \A p \in AllP, c \in AllC, v \in AllV :
                 Outcome(other, p, c, v) = Outcome(Db, p, c, v)
    /\ \A i, j \in DOMAIN votes :
          (votes[i].poll = votes[j].poll /\ votes[i].voter = votes[j].voter) => i = j

\* A second vote refused in a poll that allows two votes per voter, while
\* every other check passes.
C23_Witness ==
    /\ resp.op = "create_vote"
    /\ resp.result = "Conflict"
    /\ polls[resp.poll_id].max_votes_per_voter = 2
    /\ polls[resp.poll_id].is_active
    /\ voters[resp.voter_id].is_verified
    /\ WindowOpen(resp.poll_id)
    /\ Cardinality({i \in DOMAIN votes : votes[i].poll = resp.poll_id
                                         /\ votes[i].voter = resp.voter_id}) = 1

\* C28: create_vote does not consult Election.is_active: in the current
\* store and in every store that differs from it only in the is_active of
\* one election every create_vote request has the same outcome, so a
\* request that passes every check is admitted also when the election is
\* not active.
C28_ElectionActiveIgnored ==
    /\ \A e0 \in DOMAIN elections, a \in BOOLEAN :
          LET other == [Db EXCEPT !.elections[e0].is_active = a]
          IN  \A p \in AllP, c \in AllC, v \in AllV :
                 Outcome(other, p, c, v) = Outcome(Db, p, c, v)
    /\ \A p \in DOMAIN polls, c \in DOMAIN candidates, v \in DOMAIN voters :
          (/\ PassesUpToFlags(p, c, v)
           /\ WindowOpen(p)
           /\ ~elections[polls[p].election].is_active)
          => Outcome(Db, p, c, v).result = "ok"

\* A vote admitted in an election whose is_active is false.
C28_Witness ==
    /\ resp.op = "create_vote"
    /\ resp.result = "ok"
    /\ ~elections[polls[resp.poll_id].election].is_active
====
